---- MODULE Spec2Model ----
(***************************************************************************)
(* A model of vaska's request cache (src/resource.js, with the helpers of  *)
(* src/unnamed/part_002 and the constants of src/constants.js).            *)
(*                                                                         *)
(* One ExternalAPI object with its resource pool, every Resource object's  *)
(* cache (an Immutable Map from cache key to an entry Map), the GET        *)
(* requests and the mutations (PUT/POST/DELETE) handed to superagent and   *)
(* the sweep timers.  A call is a function from the state and its          *)
(* arguments to the Payload it returns and the state it leaves.            *)
(***************************************************************************)
EXTENDS Integers, Sequences, FiniteSets, TLC

VARIABLES
  runtime,               \* what `window && window.location` evaluates to
  cacheClearoutInterval, \* ExternalAPI.cacheClearoutInterval (0: null)
  now,                   \* the clock read by `new Date()`
  authHeader,            \* ExternalAPI.authHeader
  resources,             \* every Resource object ever constructed
  resourcePool,          \* ExternalAPI.resourcePool: id -> Resource object (0: none)
  started,               \* how many GET requests makeFetch started, per key
  fetches,               \* the GET requests whose promise is not settled
  timers,                \* the pending setTimeout callbacks of makeFetch
  mutations,             \* the PUT/POST/DELETE requests and their Payloads
  succeeded,             \* history: the last successful completion per key
  failed                 \* history: the last failed completion per key

vars == <<runtime, cacheClearoutInterval, now, authHeader, resources,
          resourcePool, started, fetches, timers, mutations, succeeded, failed>>

(***************************************************************************)
(* Bounds of the model.                                                    *)
(***************************************************************************)
MaxFetches == 2
MaxMutations == 1
MaxTargets == 2
Horizon == 1
TimeUntilStale == 1
ClearoutInterval == 1
MaxResources == 3

\* The clock starts late enough for the epoch (timestamp 0) to be expired.
StartTime == TimeUntilStale
MaxTime == StartTime + Horizon

(***************************************************************************)
(* JavaScript values: undefined, null, strings and plain objects (an       *)
(* object is the sequence of its own enumerable properties, in insertion   *)
(* order).                                                                 *)
(***************************************************************************)
Undefined == [t |-> "undefined", s |-> "", props |-> <<>>]
Null == [t |-> "null", s |-> "", props |-> <<>>]
Str(s) == [t |-> "string", s |-> s, props |-> <<>>]
Obj(props) == [t |-> "object", s |-> "", props |-> props]
Prop(n, v) == [name |-> n, value |-> v]
EmptyObj == Obj(<<>>)

isUndefined(v) == v.t = "undefined"
isNull(v) == v.t = "null"

RECURSIVE JoinProps(_, _)
RECURSIVE JSONstringify(_)
\* JSON.stringify of a defined value; a property whose value is undefined is
\* left out of the object's text.
JSONstringify(v) ==
  CASE v.t = "null" -> "null"
    [] v.t = "string" -> "\"" \o v.s \o "\""
    [] v.t = "object" -> "{" \o JoinProps(v.props, "") \o "}"
    [] OTHER -> "undefined"

JoinProps(props, sep) ==
  IF props = <<>> THEN ""
  ELSE IF isUndefined(Head(props).value) THEN JoinProps(Tail(props), sep)
  ELSE sep \o "\"" \o Head(props).name \o "\":"
           \o JSONstringify(Head(props).value) \o JoinProps(Tail(props), ",")

RECURSIVE ReduceKey(_, _)
\* _.reduce(keyArgs, (key, elem) => key + JSON.stringify(elem), key): string
\* concatenation turns the undefined that JSON.stringify(undefined) returns
\* into the text "undefined".
ReduceKey(props, key) ==
  IF props = <<>> THEN key
  ELSE ReduceKey(Tail(props), key \o JSONstringify(Head(props).value))

keyBuilder(keyArgs) == ReduceKey(keyArgs.props, "CACHEKEY-")

RECURSIVE AnyMissing(_)
AnyMissing(props) ==
  IF props = <<>> THEN FALSE
  ELSE isUndefined(Head(props).value) \/ isNull(Head(props).value)
         \/ AnyMissing(Tail(props))

\* _.reduce over undefined (no params at all) returns the accumulator, false.
isInvalidRequest(params) ==
  IF params.t = "object" THEN AnyMissing(params.props) ELSE FALSE

\* `window && window.location`: truthy in a browser, falsy where a window
\* object has no location, a ReferenceError where no window is declared.
Runtimes == {"browser", "window-without-location", "no-window"}
isBrowser == runtime = "browser"
isBrowserThrows == runtime = "no-window"

isStatusSuccess(status) == status >= 200 /\ status < 300

(***************************************************************************)
(* DataStatus (src/constants.js).                                          *)
(***************************************************************************)
DataStatus == [EMPTY |-> "EMPTY", FRESH |-> "FRESH", STALE |-> "STALE",
               PENDING_PUT |-> "PENDING_PUT", PENDING_POST |-> "PENDING_POST",
               PENDING_DELETE |-> "PENDING_DELETE", ERROR |-> "ERROR"]

(***************************************************************************)
(* The inputs of the model.                                                *)
(***************************************************************************)
ResourceIds == {"USER", "ACCOUNT"}
\* Every resource's endpoint template is /<name>/:username .
AuthRequired(id) == id = "ACCOUNT"
Model(id) == "model:" \o id

ParamsA == Obj(<<Prop("username", Str("a"))>>)
ParamsNull == Obj(<<Prop("username", Null)>>)
ParamsUndefined == Obj(<<Prop("username", Undefined)>>)
\* The path parameter left out of params altogether.
ParamsLeftOut == EmptyObj
ParamsChoices == {ParamsA, ParamsNull, ParamsUndefined, ParamsLeftOut}
\* The parameter the endpoint template names is there, with a value.
HasRequiredParam(params) ==
  \E i \in 1..Len(params.props) :
    /\ params.props[i].name = "username"
    /\ ~isUndefined(params.props[i].value)
    /\ ~isNull(params.props[i].value)

Methods == {"get", "put", "post", "delete"}
Token == Obj(<<Prop("Authorization", Str("t"))>>)
AuthHeaders == {EmptyObj, Token}

Bodies == {"d1", "d2"}
NullData == "null"

\* What superagent hands to the .end callback.
Responses ==
  [kind : {"ok"}, status : {200}, body : Bodies]
    \cup [kind : {"bad-json"}, status : {200}, body : {""}]
    \cup [kind : {"http-error"}, status : {404}, body : {""}]
    \cup [kind : {"no-response"}, status : {0}, body : {""}]

\* normalizeError(err, status), and the raw SyntaxError of JSON.parse.
normalizeError(kind, status) ==
  IF kind = "bad-json" THEN "normalized(SyntaxError)" ELSE "normalized(HTTP)"
RawSyntaxError == "SyntaxError"

\* The descriptors handed to Payload.affectsResource.
Descriptor(id, params) == Obj(<<Prop("id", Str(id)), Prop("params", params)>>)
FullDescriptor(id, params) ==
  Obj(<<Prop("id", Str(id)), Prop("query", Undefined), Prop("params", params),
        Prop("header", EmptyObj)>>)
Descriptors == {Descriptor("USER", ParamsA), FullDescriptor("ACCOUNT", ParamsA)}
PropOf(obj, name) ==
  IF \E i \in 1..Len(obj.props) : obj.props[i].name = name
  THEN obj.props[CHOOSE i \in 1..Len(obj.props) : obj.props[i].name = name].value
  ELSE Undefined

\* The key Resource.get builds for a query (resource.js:314-316); header
\* defaults to {} in queryResource.
queryKey(query, params, header) ==
  keyBuilder(Obj(<<Prop("query", query), Prop("params", params),
                   Prop("header", header)>>))
\* The key under which a GET query with the descriptor's query, params and
\* header is stored.
descriptorQueryKey(d) ==
  queryKey(PropOf(d, "query"), PropOf(d, "params"),
           IF isUndefined(PropOf(d, "header")) THEN EmptyObj
           ELSE PropOf(d, "header"))

(***************************************************************************)
(* Cache entries: Immutable Maps with some of the keys pendingGet, data,   *)
(* timestamp and success.                                                  *)
(***************************************************************************)
has(e, f) == f \in DOMAIN e
setField(e, f, v) == [n \in DOMAIN e \cup {f} |-> IF n = f THEN v ELSE e[n]]
dataOf(e) == IF has(e, "data") THEN e.data ELSE NullData
successOf(e) == IF has(e, "success") THEN e.success ELSE FALSE
\* Truthiness of a cached data value.
truthy(d) == d # NullData
\* now - timestamp < timeUntilStale; NaN (no timestamp) compares false.
\* A TTL test that still holds at the instant of expiry.
withinTTLInclusive(e, ttl) == has(e, "timestamp") /\ now - e.timestamp <= ttl
withinTTL(e, ttl) == has(e, "timestamp") /\ now - e.timestamp < ttl

remove(c, key) == [k \in DOMAIN c \ {key} |-> c[k]]
set(c, key, e) == [k \in DOMAIN c \cup {key} |-> IF k = key THEN e ELSE c[k]]
EmptyCache == [k \in {} |-> [data |-> NullData]]

\* An invalidateCache written with filter: the entries that have no
\* timestamp are dropped.
invalidateCacheByFilter(c) ==
  [k \in {j \in DOMAIN c : has(c[j], "timestamp")} |-> [c[k] EXCEPT !.timestamp = 0]]

invalidateCache(c) ==
  [k \in DOMAIN c |->
     IF has(c[k], "timestamp") THEN [c[k] EXCEPT !.timestamp = 0] ELSE c[k]]

invalidateCacheKey(c, key) ==
  IF key \in DOMAIN c THEN [c EXCEPT ![key] = setField(c[key], "timestamp", 0)]
  ELSE c

(***************************************************************************)
(* Payloads and promises.  A promise is the future of a GET request, the   *)
(* future of a mutation, or one made already settled.  A GET request is    *)
(* named by its Resource object, its key and its number among the requests *)
(* for that key; a mutation by its number.                                 *)
(***************************************************************************)
NoRequest == <<0, "", 0>>
fetchPromise(f) == [kind |-> "fetch", ref |-> f, value |-> ""]
mutationPromise(m) == [kind |-> "mutation", ref |-> <<0, "", m>>, value |-> ""]
resolvedPromise(v) == [kind |-> "resolved", ref |-> NoRequest, value |-> v]
rejectedPromise(v) == [kind |-> "rejected", ref |-> NoRequest, value |-> v]

Payload(status, data, error, promise) ==
  [status |-> status, data |-> data, error |-> error, promise |-> promise]
NoError == "undefined"

\* Payload.hasServerData, isPending and isValid (resource.js:72-94).
hasServerData(p) == p.status = DataStatus.FRESH \/ p.status = DataStatus.STALE
isPending(p) == p.status = DataStatus.STALE \/ p.status = DataStatus.EMPTY
isValid(p) == p.status # DataStatus.ERROR

\* An isAuthenticated that tests the header for undefined, not for emptiness.
isAuthenticatedIfDefined == ~isUndefined(authHeader)
isAuthenticated == authHeader # EmptyObj

\* What a call returns and the state it leaves.
Outcome(ret, rs, st, fs, ts, ms) ==
  [ret |-> ret, resources |-> rs, started |-> st, fetches |-> fs, timers |-> ts,
   mutations |-> ms]

(***************************************************************************)
(* Resource.makeFetch (resource.js:436-520): the request is handed to      *)
(* superagent, the placeholder entry is installed, the sweep is scheduled. *)
(***************************************************************************)
startedFor(st, o, cacheKey) ==
  IF <<o, cacheKey>> \in DOMAIN st THEN st[<<o, cacheKey>>] ELSE 0

RECURSIVE sumOver(_, _)
sumOver(st, pairs) ==
  IF pairs = {} THEN 0
  ELSE LET p == CHOOSE q \in pairs : TRUE IN st[p] + sumOver(st, pairs \ {p})
\* The number of GET requests ever started.
totalStarted(st) == sumOver(st, DOMAIN st)

placeholder(pendingGet, currentValue) ==
  [pendingGet |-> pendingGet, data |-> currentValue]

\* A makeFetch that leaves the cache as it was.
withoutPlaceholder(c, cacheKey, pendingGet) == c

installPlaceholder(c, cacheKey, pendingGet) ==
  set(c, cacheKey,
      placeholder(pendingGet,
                  IF cacheKey \in DOMAIN c THEN dataOf(c[cacheKey]) ELSE NullData))

scheduleSweep(ts, pendingGet) ==
  IF cacheClearoutInterval # 0
  THEN ts \cup {[fetch |-> pendingGet, due |-> now + cacheClearoutInterval]}
  ELSE ts

\* The promise makeFetch returns and the state it leaves.
makeFetch(o, cacheKey) ==
  LET pendingGet == <<o, cacheKey, startedFor(started, o, cacheKey) + 1>> IN
  Outcome(fetchPromise(pendingGet),
          [resources EXCEPT ![o].cache = installPlaceholder(@, cacheKey, pendingGet)],
          [p \in DOMAIN started \cup {<<o, cacheKey>>} |->
             IF p = <<o, cacheKey>> THEN pendingGet[3] ELSE started[p]],
          [f \in DOMAIN fetches \cup {pendingGet} |->
             IF f = pendingGet THEN "inflight" ELSE fetches[f]],
          scheduleSweep(timers, pendingGet),
          mutations)

(***************************************************************************)
(* Resource.makePut, makePost, makeDelete (resource.js:522-640): the       *)
(* request is handed to superagent; its Payload keeps the cascade targets. *)
(***************************************************************************)
newMutation(method) ==
  [method |-> method, state |-> "inflight",
   affectedResources |-> <<>>, invalidatedResources |-> <<>>,
   affectsThen |-> "none", invalidatesThen |-> "none"]

\* A mutation that stales out every cache as it is sent.
makeMutationInvalidating(method) ==
  Outcome(mutationPromise(Len(mutations) + 1),
          [o \in DOMAIN resources |->
             [resources[o] EXCEPT !.cache = invalidateCache(@)]],
          started, fetches, timers, Append(mutations, newMutation(method)))

makeMutation(method) ==
  Outcome(mutationPromise(Len(mutations) + 1), resources, started, fetches,
          timers, Append(mutations, newMutation(method)))

pendingStatus(method) ==
  CASE method = "put" -> DataStatus.PENDING_PUT
    [] method = "post" -> DataStatus.PENDING_POST
    [] OTHER -> DataStatus.PENDING_DELETE

(***************************************************************************)
(* Resource.get (resource.js:287-434) for a supported verb.                *)
(***************************************************************************)
\* The branch of the GET path (resource.js:348-408).
cacheBranch(c, cacheKey, timeUntilStale, forceRefresh) ==
  IF cacheKey \in DOMAIN c THEN
    LET data == c[cacheKey] IN
    IF has(data, "pendingGet") /\ successOf(data) THEN "pending"
    ELSE IF ~successOf(data)
      THEN (IF withinTTL(data, timeUntilStale) THEN "failed" ELSE "retry")
    ELSE IF withinTTL(data, timeUntilStale) /\ ~forceRefresh THEN "fresh"
    ELSE "stale"
  ELSE "miss"

\* The Payload of a request refused before any request is made
\* (resource.js:302-311 and 319-332).
refusedPayload(model) ==
  Payload(DataStatus.ERROR, model, NoError, resolvedPromise(model))

\* The two checks made before the cache is looked up.
refused(r, params) ==
  (~isAuthenticated /\ r.authRequired) \/ isInvalidRequest(params)

unchanged(ret) == Outcome(ret, resources, started, fetches, timers, mutations)
returning(ret, out) ==
  Outcome(ret, out.resources, out.started, out.fetches, out.timers, out.mutations)

get(o, method, params, forceRefresh) ==
  LET r == resources[o]
      cacheKey == queryKey(Undefined, params, EmptyObj)
      branch == cacheBranch(r.cache, cacheKey, r.timeUntilStale, forceRefresh)
      data == IF cacheKey \in DOMAIN r.cache THEN r.cache[cacheKey]
              ELSE [data |-> NullData]
      fetch == makeFetch(o, cacheKey)
      mutation == makeMutation(method)
  IN
  IF refused(r, params) THEN unchanged(refusedPayload(r.model))
  ELSE IF method = "get" THEN
    CASE branch = "pending" ->
           LET status == IF truthy(dataOf(data)) THEN DataStatus.STALE
                         ELSE DataStatus.EMPTY
           IN unchanged(Payload(status,
                                IF status = DataStatus.EMPTY THEN r.model
                                ELSE dataOf(data),
                                NoError, fetchPromise(data.pendingGet)))
      [] branch = "failed" ->
           unchanged(Payload(DataStatus.ERROR, r.model, dataOf(data),
                             rejectedPromise(dataOf(data))))
      [] branch = "retry" ->
           returning(Payload(DataStatus.ERROR, r.model, dataOf(data), fetch.ret),
                     fetch)
      [] branch = "fresh" ->
           unchanged(Payload(DataStatus.FRESH, dataOf(data), NoError,
                             resolvedPromise(dataOf(data))))
      [] branch = "stale" ->
           returning(Payload(DataStatus.STALE, dataOf(data), NoError, fetch.ret),
                     fetch)
      [] OTHER ->
           returning(Payload(DataStatus.EMPTY, r.model, NoError, fetch.ret), fetch)
  ELSE returning(Payload(pendingStatus(method), NullData, NoError, mutation.ret),
                 mutation)

\* History: what "after a fetch completed" refers to (for a success the data
\* fetched, for a failure its kind).
forget(h, pairs) == [p \in DOMAIN h \ pairs |-> h[p]]
remember(h, pair, v) == [p \in DOMAIN h \cup {pair} |-> IF p = pair THEN v ELSE h[p]]
NoHistory == [p \in {} |-> [at |-> 0, data |-> ""]]
forced(o, method, params, forceRefresh) ==
  IF method = "get" /\ forceRefresh /\ ~refused(resources[o], params)
  THEN {<<o, queryKey(Undefined, params, EmptyObj)>>} ELSE {}

(***************************************************************************)
(* ExternalAPI.queryResource (resource.js:198-231) for a registered        *)
(* resource.                                                               *)
(***************************************************************************)
queryResource(id, method, params, forceRefresh) ==
  LET o == resourcePool[id]
      out == get(o, method, params, forceRefresh)
  IN
  /\ o # 0
  /\ totalStarted(out.started) <= MaxFetches
  /\ Len(out.mutations) <= MaxMutations
  /\ resources' = out.resources
  /\ started' = out.started
  /\ fetches' = out.fetches
  /\ timers' = out.timers
  /\ mutations' = out.mutations
  /\ succeeded' = forget(succeeded, forced(o, method, params, forceRefresh))
  /\ UNCHANGED <<runtime, cacheClearoutInterval, now, authHeader, resourcePool,
                 failed>>

\* The verbs a caller may pass, and String.prototype.toLowerCase on them.
Verbs == Methods \cup {"GET", "Put", "patch"}
toLowerCase(method) ==
  CASE method = "GET" -> "get"
    [] method = "Put" -> "put"
    [] OTHER -> method

\* this.resourcePool.get(id, null), with 0 for null.
poolOf(id) == IF id \in DOMAIN resourcePool THEN resourcePool[id] ELSE 0

raised(message) == [kind |-> "throws", value |-> message]
returned(value) == [kind |-> "returns", value |-> value]
NeverInitialized == "Error: Resource was never initialized."
NullResult == "null"

\* How a call of queryResource ends: the Error it throws or the value it
\* returns.  The Error that Resource.get throws for an unsupported method is
\* caught and logged, and `res`, still null, is returned.
queryResourceCall(id, method, params, forceRefresh) ==
  IF poolOf(id) = 0 THEN raised(NeverInitialized)
  ELSE IF toLowerCase(method) \notin Methods THEN returned(NullResult)
  ELSE returned(get(poolOf(id), toLowerCase(method), params, forceRefresh).ret)

(***************************************************************************)
(* The .end callback of makeFetch (resource.js:451-502).                   *)
(***************************************************************************)
failedEntry(error, timestamp) ==
  [data |-> error, timestamp |-> timestamp, success |-> FALSE]
succeededEntry(payload, timestamp) ==
  [data |-> payload, timestamp |-> timestamp, success |-> TRUE]

\* A callback that gives up when the entry of its key is gone.
fetchCallbackUnlessSwept(c, cacheKey, resp) ==
  IF cacheKey \notin DOMAIN c
  THEN [cache |-> c, state |-> "hung", value |-> ""]
  ELSE
    LET err == resp.kind \in {"http-error", "no-response"} IN
    CASE resp.kind = "no-response" ->
           \* res is undefined: `res.status` throws a TypeError
           [cache |-> c, state |-> "hung", value |-> ""]
      [] resp.kind = "bad-json" ->
           IF isBrowserThrows
           THEN [cache |-> c, state |-> "hung", value |-> ""]
           ELSE [cache |-> IF isBrowser
                           THEN set(c, cacheKey, failedEntry(RawSyntaxError, now))
                           ELSE c,
                 state |-> "rejected",
                 value |-> normalizeError(resp.kind, resp.status)]
      [] err \/ ~isStatusSuccess(resp.status) ->
           IF isBrowserThrows
           THEN [cache |-> remove(c, cacheKey), state |-> "hung", value |-> ""]
           ELSE [cache |-> IF isBrowser
                           THEN set(remove(c, cacheKey), cacheKey,
                                    failedEntry(normalizeError(resp.kind, resp.status), now))
                           ELSE remove(c, cacheKey),
                 state |-> "rejected",
                 value |-> normalizeError(resp.kind, resp.status)]
      [] OTHER ->
           LET payload == IF resp.kind = "ok" THEN resp.body ELSE NullData IN
           [cache |-> set(c, cacheKey, succeededEntry(payload, now)),
            state |-> "resolved", value |-> payload]

\* The outcome of the callback for one response: the cache, and how the
\* promise is left ("hung": the callback threw before settling it).
fetchCallback(c, cacheKey, resp) ==
  LET err == resp.kind \in {"http-error", "no-response"} IN
  CASE resp.kind = "no-response" ->
         \* res is undefined: `res.status` throws a TypeError
         [cache |-> c, state |-> "hung", value |-> ""]
    [] resp.kind = "bad-json" ->
         IF isBrowserThrows
         THEN [cache |-> c, state |-> "hung", value |-> ""]
         ELSE [cache |-> IF isBrowser
                         THEN set(c, cacheKey, failedEntry(RawSyntaxError, now))
                         ELSE c,
               state |-> "rejected",
               value |-> normalizeError(resp.kind, resp.status)]
    [] err \/ ~isStatusSuccess(resp.status) ->
         IF isBrowserThrows
         THEN [cache |-> remove(c, cacheKey), state |-> "hung", value |-> ""]
         ELSE [cache |-> IF isBrowser
                         THEN set(remove(c, cacheKey), cacheKey,
                                  failedEntry(normalizeError(resp.kind, resp.status), now))
                         ELSE remove(c, cacheKey),
               state |-> "rejected",
               value |-> normalizeError(resp.kind, resp.status)]
    [] OTHER ->
         LET payload == IF resp.kind = "ok" THEN resp.body ELSE NullData IN
         [cache |-> set(c, cacheKey, succeededEntry(payload, now)),
          state |-> "resolved", value |-> payload]

isFailure(resp) == resp.kind \in {"http-error", "no-response", "bad-json"}

\* A settled promise is dropped from the requests; a hung one stays, unsettled.
afterCallback(fs, f, state) ==
  IF state = "hung" THEN [fs EXCEPT ![f] = "hung"]
  ELSE [g \in DOMAIN fs \ {f} |-> fs[g]]

\* A completion that looks its resource up in the pool when it runs.
completeFetchThroughPool(f, resp) ==
  /\ f \in DOMAIN fetches
  /\ fetches[f] = "inflight"
  /\ LET sameId == {id \in DOMAIN resourcePool :
                      resources[resourcePool[id]].model = resources[f[1]].model}
         o == IF sameId = {} THEN f[1] ELSE resourcePool[CHOOSE id \in sameId : TRUE]
         cacheKey == f[2]
         out == fetchCallback(resources[o].cache, cacheKey, resp)
     IN
     /\ resources' = [resources EXCEPT ![o].cache = out.cache]
     /\ fetches' = afterCallback(fetches, f, out.state)
     /\ succeeded' = IF isFailure(resp) THEN succeeded
                     ELSE remember(succeeded, <<o, cacheKey>>,
                                   [at |-> now, data |-> out.value])
     /\ failed' = IF isFailure(resp)
                  THEN remember(failed, <<o, cacheKey>>, [at |-> now, data |-> resp.kind])
                  ELSE forget(failed, {<<o, cacheKey>>})
  /\ UNCHANGED <<runtime, cacheClearoutInterval, now, authHeader, resourcePool,
                 started, timers, mutations>>

completeFetch(f, resp) ==
  /\ f \in DOMAIN fetches
  /\ fetches[f] = "inflight"
  /\ LET o == f[1]
         cacheKey == f[2]
         out == fetchCallback(resources[o].cache, cacheKey, resp)
     IN
     /\ resources' = [resources EXCEPT ![o].cache = out.cache]
     /\ fetches' = afterCallback(fetches, f, out.state)
     /\ succeeded' = IF isFailure(resp) THEN succeeded
                     ELSE remember(succeeded, <<o, cacheKey>>,
                                   [at |-> now, data |-> out.value])
     /\ failed' = IF isFailure(resp)
                  THEN remember(failed, <<o, cacheKey>>, [at |-> now, data |-> resp.kind])
                  ELSE forget(failed, {<<o, cacheKey>>})
  /\ UNCHANGED <<runtime, cacheClearoutInterval, now, authHeader, resourcePool,
                 started, timers, mutations>>

(***************************************************************************)
(* The .end callbacks of makePut, makePost and makeDelete                  *)
(* (resource.js:537-561, 582-606, 625-636).                                *)
(***************************************************************************)
mutationCallback(method, resp) ==
  LET err == resp.kind \in {"http-error", "no-response"} IN
  CASE resp.kind = "no-response" -> [state |-> "hung", value |-> ""]
    [] resp.kind = "bad-json" /\ method # "delete" ->
         [state |-> "rejected", value |-> normalizeError(resp.kind, resp.status)]
    [] err \/ ~isStatusSuccess(resp.status) ->
         [state |-> "rejected", value |-> normalizeError(resp.kind, resp.status)]
    [] OTHER ->
         [state |-> "resolved",
          value |-> IF method = "delete" THEN "Map {}"
                    ELSE IF resp.kind = "ok" THEN resp.body ELSE NullData]

completeMutation(m, resp) ==
  /\ m \in 1..Len(mutations)
  /\ mutations[m].state = "inflight"
  /\ mutations' = [mutations EXCEPT
                     ![m].state = mutationCallback(mutations[m].method, resp).state]
  /\ UNCHANGED <<runtime, cacheClearoutInterval, now, authHeader, resources,
                 resourcePool, started, fetches, timers, succeeded, failed>>

(***************************************************************************)
(* Payload.affectsResource and Payload.invalidatesResource                 *)
(* (resource.js:108-143) on the Payload of a mutation.                     *)
(***************************************************************************)
contains(seq, x) == \E i \in 1..Len(seq) : seq[i] = x
\* Immutable's Set.add: nothing is added twice.
add(seq, x) == IF contains(seq, x) THEN seq ELSE Append(seq, x)

affectsResource(m, resourceObject) ==
  /\ m \in 1..Len(mutations)
  /\ ~contains(mutations[m].affectedResources, resourceObject)
  /\ Len(mutations[m].affectedResources) < MaxTargets
  /\ mutations' = [mutations EXCEPT
       ![m].affectsThen =
          IF mutations[m].affectedResources = <<>> THEN "registered" ELSE @,
       ![m].affectedResources = add(@, resourceObject)]
  /\ UNCHANGED <<runtime, cacheClearoutInterval, now, authHeader, resources,
                 resourcePool, started, fetches, timers, succeeded, failed>>

invalidatesResource(m, resourceId) ==
  /\ m \in 1..Len(mutations)
  /\ ~contains(mutations[m].invalidatedResources, resourceId)
  /\ Len(mutations[m].invalidatedResources) < MaxTargets
  /\ mutations' = [mutations EXCEPT
       ![m].invalidatesThen =
          IF mutations[m].invalidatedResources = <<>> THEN "registered" ELSE @,
       ![m].invalidatedResources = add(@, resourceId)]
  /\ UNCHANGED <<runtime, cacheClearoutInterval, now, authHeader, resources,
                 resourcePool, started, fetches, timers, succeeded, failed>>

\* promise.then(callback): the callback runs once the promise is resolved,
\* never when it is rejected (the trailing .catch swallows the rejection).
\* A listener registered with .then(callback, callback).
thenRunsOnceSettled(state) == state \in {"resolved", "rejected"}
thenRuns(state) == state = "resolved"
settled(state) == state \in {"resolved", "rejected"}

poolGet(idValue) ==
  IF idValue.t = "string" /\ idValue.s \in DOMAIN resourcePool
  THEN resourcePool[idValue.s] ELSE 0

RECURSIVE walkAffected(_, _)
\* The forEach of the affectsResource listener; an unregistered id throws a
\* TypeError that ends the walk.
walkAffected(targets, rs) ==
  IF targets = <<>> THEN rs
  ELSE LET resource == Head(targets)
           o == poolGet(PropOf(resource, "id"))
       IN IF o = 0 THEN rs
          ELSE walkAffected(Tail(targets),
                 [rs EXCEPT ![o].cache = invalidateCacheKey(@, keyBuilder(resource))])

RECURSIVE walkInvalidated(_, _)
walkInvalidated(targets, rs) ==
  IF targets = <<>> THEN rs
  ELSE LET o == poolGet(Str(Head(targets)))
       IN IF o = 0 THEN rs
          ELSE walkInvalidated(Tail(targets),
                 [rs EXCEPT ![o].cache = invalidateCache(@)])

\* The listeners' effect on the caches once the promise is settled.
affectsCascade(mutation) ==
  IF thenRuns(mutation.state)
  THEN walkAffected(mutation.affectedResources, resources) ELSE resources
invalidatesCascade(mutation) ==
  IF thenRuns(mutation.state)
  THEN walkInvalidated(mutation.invalidatedResources, resources) ELSE resources

\* The entries a cascade names: the history no longer speaks of them.
affectedPairs(mutation) ==
  {p \in DOMAIN succeeded \cup DOMAIN failed :
     /\ thenRuns(mutation.state)
     /\ \E i \in 1..Len(mutation.affectedResources) :
          LET d == mutation.affectedResources[i] IN
          /\ p[1] = poolGet(PropOf(d, "id"))
          /\ p[2] \in {keyBuilder(d), descriptorQueryKey(d)}}
invalidatedPairs(mutation) ==
  {p \in DOMAIN succeeded \cup DOMAIN failed :
     /\ thenRuns(mutation.state)
     /\ \E i \in 1..Len(mutation.invalidatedResources) :
          p[1] = poolGet(Str(mutation.invalidatedResources[i]))}

affectsListener(m) ==
  /\ m \in 1..Len(mutations)
  /\ mutations[m].affectsThen = "registered"
  /\ settled(mutations[m].state)
  /\ resources' = affectsCascade(mutations[m])
  /\ succeeded' = forget(succeeded, affectedPairs(mutations[m]))
  /\ failed' = forget(failed, affectedPairs(mutations[m]))
  /\ mutations' = [mutations EXCEPT ![m].affectsThen = "done"]
  /\ UNCHANGED <<runtime, cacheClearoutInterval, now, authHeader, resourcePool,
                 started, fetches, timers>>

invalidatesListener(m) ==
  /\ m \in 1..Len(mutations)
  /\ mutations[m].invalidatesThen = "registered"
  /\ settled(mutations[m].state)
  /\ resources' = invalidatesCascade(mutations[m])
  /\ succeeded' = forget(succeeded, invalidatedPairs(mutations[m]))
  /\ failed' = forget(failed, invalidatedPairs(mutations[m]))
  /\ mutations' = [mutations EXCEPT ![m].invalidatesThen = "done"]
  /\ UNCHANGED <<runtime, cacheClearoutInterval, now, authHeader, resourcePool,
                 started, fetches, timers>>

(***************************************************************************)
(* ExternalAPI.setAuthHeader and unsetAuthHeader (resource.js:237-247).    *)
(***************************************************************************)
registered == {resourcePool[id] : id \in DOMAIN resourcePool} \ {0}

\* this.resourcePool.map((resource) => { resource.invalidateCache() })
invalidateAll(rs) ==
  [o \in DOMAIN rs |->
     IF o \in registered THEN [rs[o] EXCEPT !.cache = invalidateCache(@)]
     ELSE rs[o]]

registeredPairs ==
  {p \in DOMAIN succeeded \cup DOMAIN failed : p[1] \in registered}

setAuthHeader(header) ==
  /\ authHeader' = header
  /\ resources' = invalidateAll(resources)
  /\ succeeded' = forget(succeeded, registeredPairs)
  /\ failed' = forget(failed, registeredPairs)
  /\ UNCHANGED <<runtime, cacheClearoutInterval, now, resourcePool, started,
                 fetches, timers, mutations>>

unsetAuthHeader ==
  /\ authHeader' = EmptyObj
  /\ resources' = invalidateAll(resources)
  /\ succeeded' = forget(succeeded, registeredPairs)
  /\ failed' = forget(failed, registeredPairs)
  /\ UNCHANGED <<runtime, cacheClearoutInterval, now, resourcePool, started,
                 fetches, timers, mutations>>

(***************************************************************************)
(* The sweep timer of makeFetch (resource.js:513-517) and the clock.       *)
(***************************************************************************)
sweep(t) ==
  /\ t \in timers
  /\ now >= t.due
  /\ \A u \in timers : u.due >= t.due
  /\ timers' = timers \ {t}
  /\ resources' = [resources EXCEPT ![t.fetch[1]].cache = remove(@, t.fetch[2])]
  /\ UNCHANGED <<runtime, cacheClearoutInterval, now, authHeader, resourcePool,
                 started, fetches, mutations, succeeded, failed>>

tick ==
  /\ now < MaxTime
  /\ now' = now + 1
  /\ UNCHANGED <<runtime, cacheClearoutInterval, authHeader, resources,
                 resourcePool, started, fetches, timers, mutations, succeeded,
                 failed>>

(***************************************************************************)
(* The API after construction and addResource of both resources            *)
(* (resource.js:147-192, 255-273).                                         *)
(***************************************************************************)
Resource(id, initialCache) ==
  [cache |-> initialCache, timeUntilStale |-> TimeUntilStale,
   model |-> Model(id), authRequired |-> AuthRequired(id)]

\* An initialCache holding one successful entry per resource.
SeededCache ==
  [k \in {queryKey(Undefined, ParamsA, EmptyObj)} |->
     [data |-> "d1", timestamp |-> StartTime, success |-> TRUE]]

Constructed(initialCache) ==
  /\ now = StartTime
  /\ authHeader = EmptyObj
  /\ resources = <<Resource("USER", initialCache), Resource("ACCOUNT", initialCache)>>
  /\ resourcePool = [id \in ResourceIds |-> IF id = "USER" THEN 1 ELSE 2]
  /\ started = [p \in {} |-> 0]
  /\ fetches = [f \in {} |-> "inflight"]
  /\ timers = {}
  /\ mutations = <<>>
  /\ succeeded = NoHistory
  /\ failed = NoHistory

\* The default configuration: no cacheClearoutInterval, no initialCache.
Init ==
  /\ runtime \in Runtimes
  /\ cacheClearoutInterval = 0
  /\ Constructed(EmptyCache)

\* The queries the model makes.
QueryInputs ==
  [id : {"USER"}, params : {ParamsA, ParamsNull}]
    \cup [id : {"ACCOUNT"}, params : {ParamsA}]

Next ==
  \/ \E q \in QueryInputs, forceRefresh \in BOOLEAN :
       queryResource(q.id, "get", q.params, forceRefresh)
  \/ \E f \in DOMAIN fetches, resp \in Responses : completeFetch(f, resp)
  \/ \E header \in AuthHeaders : setAuthHeader(header)
  \/ unsetAuthHeader
  \/ tick

Spec == Init /\ [][Next]_vars

\* Mutations and their cascades, in a browser, over a rehydrated cache.
InitCascade ==
  /\ runtime = "browser"
  /\ cacheClearoutInterval = 0
  /\ Constructed(SeededCache)

NextCascade ==
  \/ \E params \in {ParamsA, ParamsLeftOut}, forceRefresh \in BOOLEAN :
       queryResource("USER", "get", params, forceRefresh)
  \/ \E id \in ResourceIds, method \in Methods \ {"get"} :
       queryResource(id, method, ParamsA, FALSE)
  \/ \E f \in DOMAIN fetches, resp \in Responses : completeFetch(f, resp)
  \/ \E m \in 1..MaxMutations, resp \in Responses : completeMutation(m, resp)
  \/ \E m \in 1..MaxMutations, d \in Descriptors : affectsResource(m, d)
  \/ \E m \in 1..MaxMutations, id \in ResourceIds : invalidatesResource(m, id)
  \/ \E m \in 1..MaxMutations : affectsListener(m)
  \/ \E m \in 1..MaxMutations : invalidatesListener(m)

SpecCascade == InitCascade /\ [][NextCascade]_vars

\* An API constructed with cacheClearoutInterval, one resource queried.
InitSweep ==
  /\ runtime \in Runtimes
  /\ cacheClearoutInterval = ClearoutInterval
  /\ Constructed(EmptyCache)

NextSweep ==
  \/ \E forceRefresh \in BOOLEAN : queryResource("USER", "get", ParamsA, forceRefresh)
  \/ \E f \in DOMAIN fetches, resp \in Responses : completeFetch(f, resp)
  \/ \E t \in timers : sweep(t)
  \/ tick

SpecSweep == InitSweep /\ [][NextSweep]_vars

(***************************************************************************)
(* addResource and removeResource (resource.js:166-196).                   *)
(***************************************************************************)
\* this.resourcePool = this.resourcePool.delete(id)
removeResource(id) ==
  /\ resourcePool' = [i \in DOMAIN resourcePool \ {id} |-> resourcePool[i]]
  /\ UNCHANGED <<runtime, cacheClearoutInterval, now, authHeader, resources,
                 started, fetches, timers, mutations, succeeded, failed>>

\* A new Resource object, with the initialCache of its id, takes the id's
\* place in the pool; the object registered before is left as it is.
addResource(id) ==
  /\ Len(resources) < MaxResources
  /\ resources' = Append(resources, Resource(id, EmptyCache))
  /\ resourcePool' = [i \in DOMAIN resourcePool \cup {id} |->
                        IF i = id THEN Len(resources) + 1 ELSE resourcePool[i]]
  /\ UNCHANGED <<runtime, cacheClearoutInterval, now, authHeader, started,
                 fetches, timers, mutations, succeeded, failed>>

\* Resources removed and registered again while requests are in flight.
InitRemove ==
  /\ runtime \in Runtimes
  /\ cacheClearoutInterval = 0
  /\ Constructed(EmptyCache)

NextRemove ==
  \/ \E forceRefresh \in BOOLEAN :
       /\ "USER" \in DOMAIN resourcePool
       /\ queryResource("USER", "get", ParamsA, forceRefresh)
  \/ \E f \in DOMAIN fetches, resp \in Responses : completeFetch(f, resp)
  \/ removeResource("USER")
  \/ addResource("USER")
  \/ tick

SpecRemove == InitRemove /\ [][NextRemove]_vars

(***************************************************************************)
(* Properties.  A property of what a query returns is stated of            *)
(* get(o, "get", params, forceRefresh) in every reachable state.           *)
(***************************************************************************)
keyOf(params) == queryKey(Undefined, params, EmptyObj)
\* The params that name every path parameter.
Complete == {params \in ParamsChoices : HasRequiredParam(params)}
Objects == DOMAIN resources
accepted(o, params) == ~refused(resources[o], params)
inflight(f) == f \in DOMAIN fetches /\ fetches[f] = "inflight"
inflightFor(o, cacheKey) == {f \in DOMAIN fetches : f[1] = o /\ f[2] = cacheKey /\ inflight(f)}
noFetchStarted(out) == out.fetches = fetches /\ out.started = started
newFetches(out) == DOMAIN out.fetches \ DOMAIN fetches
oneFetchStarted(out) ==
  /\ totalStarted(out.started) = totalStarted(started) + 1
  /\ Cardinality(newFetches(out)) = 1
\* The entry of the key is the placeholder of a request still in flight.
fetchInFlight(o, cacheKey) ==
  /\ cacheKey \in DOMAIN resources[o].cache
  /\ has(resources[o].cache[cacheKey], "pendingGet")
  /\ inflight(resources[o].cache[cacheKey].pendingGet)

\* C1: at most one GET request per (resource, cache key) is started and not
\* yet settled: a query for a key whose fetch is in flight starts no other.
C1_OneOutstandingFetchPerKey ==
  \A o \in Objects, params \in Complete :
    Cardinality(inflightFor(o, keyOf(params))) <= 1

\* C2: a GET query for a key whose fetch is in flight returns that very
\* future, STALE with the entry's data if it holds data and EMPTY with the
\* model otherwise, and starts no fetch.
C2_RepeatQuerySharesTheFuture ==
  \A o \in Objects, params \in Complete :
    LET cacheKey == keyOf(params)
        out == get(o, "get", params, FALSE)
        entry == resources[o].cache[cacheKey]
    IN (accepted(o, params) /\ fetchInFlight(o, cacheKey)) =>
         /\ out.ret.promise = fetchPromise(entry.pendingGet)
         /\ out.ret.status = IF truthy(dataOf(entry)) THEN DataStatus.STALE
                             ELSE DataStatus.EMPTY
         /\ out.ret.data = IF truthy(dataOf(entry)) THEN dataOf(entry)
                           ELSE resources[o].model
         /\ noFetchStarted(out)

\* C3: a GET query for a key that has no entry starts exactly one fetch,
\* leaves the entry of that fetch in the cache when it returns, and returns
\* EMPTY, the resource's model and the future of the new fetch.
C3_MissStartsOneFetch ==
  \A o \in Objects, params \in ParamsChoices, forceRefresh \in BOOLEAN :
    LET cacheKey == keyOf(params)
        out == get(o, "get", params, forceRefresh)
    IN (accepted(o, params) /\ cacheKey \notin DOMAIN resources[o].cache) =>
         /\ oneFetchStarted(out)
         /\ \A f \in newFetches(out) :
              /\ f[1] = o /\ f[2] = cacheKey /\ out.fetches[f] = "inflight"
              /\ out.ret.promise = fetchPromise(f)
              /\ cacheKey \in DOMAIN out.resources[o].cache
              /\ has(out.resources[o].cache[cacheKey], "pendingGet")
              /\ out.resources[o].cache[cacheKey].pendingGet = f
         /\ out.ret.status = DataStatus.EMPTY
         /\ out.ret.data = resources[o].model
         /\ out.ret.error = NoError

\* The first query for a key has returned: its request is the only one, in
\* flight, and the entry of the key is its placeholder.
C3_Witness ==
  \E o \in Objects, params \in ParamsChoices :
    LET cacheKey == keyOf(params) IN
    /\ startedFor(started, o, cacheKey) = 1
    /\ totalStarted(started) = 1
    /\ inflight(<<o, cacheKey, 1>>)
    /\ cacheKey \in DOMAIN resources[o].cache
    /\ resources[o].cache[cacheKey] = placeholder(<<o, cacheKey, 1>>, NullData)

\* A fetch of the key completed with success, or with failure, less than the
\* resource's timeUntilStale ago, and nothing invalidated the entry since.
succeededWithinTTL(o, cacheKey) ==
  /\ <<o, cacheKey>> \in DOMAIN succeeded
  /\ now - succeeded[<<o, cacheKey>>].at < resources[o].timeUntilStale
failedWithinTTL(o, cacheKey) ==
  /\ <<o, cacheKey>> \in DOMAIN failed
  /\ failed[<<o, cacheKey>>].data = "http-error"
  /\ now - failed[<<o, cacheKey>>].at < resources[o].timeUntilStale

\* C4: after a fetch of a key completed with success, every GET query for the
\* key without forceRefresh made less than timeUntilStale later, nothing
\* having invalidated the entry, returns FRESH with the fetched data and a
\* future already resolved with it, and starts no fetch.
C4_FreshWithinTTL ==
  \A o \in Objects, params \in Complete :
    LET cacheKey == keyOf(params)
        out == get(o, "get", params, FALSE)
    IN (accepted(o, params) /\ succeededWithinTTL(o, cacheKey)) =>
         /\ out.ret.status = DataStatus.FRESH
         /\ out.ret.data = succeeded[<<o, cacheKey>>].data
         /\ out.ret.promise = resolvedPromise(succeeded[<<o, cacheKey>>].data)
         /\ noFetchStarted(out)

\* C5: the GET query that finds a successful entry expired returns STALE with
\* the entry's data and starts exactly one fetch; the queries made while the
\* fetch that refreshes an expired entry is in flight return the same data
\* and start no fetch.
C5_StaleWhileRefreshing ==
  \A o \in Objects, params \in Complete :
    LET cacheKey == keyOf(params)
        out == get(o, "get", params, FALSE)
        entry == resources[o].cache[cacheKey]
    IN accepted(o, params) /\ cacheKey \in DOMAIN resources[o].cache =>
         /\ (successOf(entry) /\ ~withinTTL(entry, resources[o].timeUntilStale)) =>
              /\ out.ret.status = DataStatus.STALE
              /\ out.ret.data = dataOf(entry)
              /\ oneFetchStarted(out)
              /\ \A f \in newFetches(out) : out.ret.promise = fetchPromise(f)
         /\ (/\ fetchInFlight(o, cacheKey) /\ truthy(dataOf(entry))
             /\ <<o, cacheKey>> \in DOMAIN succeeded
             /\ ~succeededWithinTTL(o, cacheKey)) =>
              /\ out.ret.status = DataStatus.STALE
              /\ out.ret.data = dataOf(entry)
              /\ noFetchStarted(out)

\* C6: a query, of any verb, whose path parameter is null, undefined or left
\* out of params returns ERROR, the resource's model and a future resolved
\* with the model; no request is made and no cache entry changes.
C6_MissingParamNeverSent ==
  \A o \in Objects, method \in Methods, params \in ParamsChoices,
     forceRefresh \in BOOLEAN :
    ~HasRequiredParam(params) =>
      get(o, method, params, forceRefresh) = unchanged(refusedPayload(resources[o].model))

\* C7: after a fetch of a key failed, every GET query for the key made less
\* than timeUntilStale later starts no fetch and returns ERROR, the model, the
\* stored error and a future already rejected with that error.
C7_NoRetryWithinTTL ==
  \A o \in Objects, params \in Complete, forceRefresh \in BOOLEAN :
    LET cacheKey == keyOf(params)
        out == get(o, "get", params, forceRefresh)
    IN (accepted(o, params) /\ failedWithinTTL(o, cacheKey)) =>
         /\ noFetchStarted(out)
         /\ out.ret.status = DataStatus.ERROR
         /\ out.ret.data = resources[o].model
         /\ out.ret.promise = rejectedPromise(out.ret.error)
         /\ cacheKey \in DOMAIN resources[o].cache
         /\ out.ret.error = dataOf(resources[o].cache[cacheKey])

\* The steps in which a listener of mutation m runs, or would run.
affectsSettles(m) == m \in 1..Len(mutations) /\ affectsListener(m)
invalidatesSettles(m) == m \in 1..Len(mutations) /\ invalidatesListener(m)

\* C8: once the future of a mutation is rejected, the listeners that
\* affectsResource and invalidatesResource registered on its Payload change
\* no cache entry of any resource.
C8_RejectedMutationNoCascade ==
  [][\A m \in 1..MaxMutations :
       ((affectsSettles(m) \/ invalidatesSettles(m))
          /\ mutations[m].state = "rejected") => resources' = resources]_vars

\* A rejected mutation with targets of both kinds, both listeners settled,
\* and an entry of an invalidatesResource target still as it was stored.
C8_Witness ==
  \E m \in 1..Len(mutations) :
    /\ mutations[m].state = "rejected"
    /\ mutations[m].affectedResources # <<>>
    /\ mutations[m].affectsThen = "done"
    /\ mutations[m].invalidatesThen = "done"
    /\ \E i \in 1..Len(mutations[m].invalidatedResources) :
         LET c == resources[poolGet(Str(mutations[m].invalidatedResources[i]))].cache
         IN \E k \in DOMAIN c : has(c[k], "timestamp") /\ c[k].timestamp # 0

\* What the declared targets ask for: the entry a GET query with the
\* descriptor's query, params and header is stored under is staled out, and
\* so is every timestamped entry of a resource named to invalidatesResource.
RECURSIVE declaredAffected(_, _)
declaredAffected(targets, rs) ==
  IF targets = <<>> THEN rs
  ELSE LET o == poolGet(PropOf(Head(targets), "id"))
           cacheKey == descriptorQueryKey(Head(targets))
       IN declaredAffected(Tail(targets),
            [rs EXCEPT ![o].cache =
               IF cacheKey \in DOMAIN @
               THEN [@ EXCEPT ![cacheKey] = setField(@, "timestamp", 0)] ELSE @])

RECURSIVE declaredInvalidated(_, _)
declaredInvalidated(targets, rs) ==
  IF targets = <<>> THEN rs
  ELSE LET o == poolGet(Str(Head(targets)))
       IN declaredInvalidated(Tail(targets),
            [rs EXCEPT ![o].cache =
               [k \in DOMAIN @ |->
                  IF has(@[k], "timestamp") THEN [@[k] EXCEPT !.timestamp = 0]
                  ELSE @[k]]])

\* C9: once the future of a mutation is resolved, its listeners stale out
\* exactly the declared targets: the entry each affectsResource descriptor's
\* GET query is stored under and every entry of each invalidatesResource
\* resource get timestamp 0, their data kept; every other entry is unchanged.
C9_ResolvedMutationStalesTargets ==
  [][\A m \in 1..MaxMutations :
       /\ (affectsSettles(m) /\ mutations[m].state = "resolved") =>
            resources' = declaredAffected(mutations[m].affectedResources, resources)
       /\ (invalidatesSettles(m) /\ mutations[m].state = "resolved") =>
            resources' = declaredInvalidated(mutations[m].invalidatedResources,
                                             resources)]_vars

\* The steps of setAuthHeader and unsetAuthHeader.
authHeaderChange == unsetAuthHeader \/ \E header \in AuthHeaders : setAuthHeader(header)

C11_StaleAfterAuthChange ==
  [][authHeaderChange =>
       \A o \in registered, params \in Complete :
         LET cacheKey == keyOf(params) IN
         (/\ cacheKey \in DOMAIN resources[o].cache
          /\ has(resources[o].cache[cacheKey], "timestamp")
          /\ accepted(o, params)') =>
           get(o, "get", params, FALSE)'.ret.status = DataStatus.STALE]_vars

\* The ids a caller may pass: the resources' and one never registered.
CallerIds == ResourceIds \cup {"GHOST"}

\* C12: queryResource throws at the call, returning nothing, when the id is
\* not registered and when the verb is none of get, post, put, delete.
C12_UsageErrorsThrow ==
  \A id \in CallerIds, method \in Verbs, params \in ParamsChoices :
    (poolOf(id) = 0 \/ toLowerCase(method) \notin Methods) =>
      queryResourceCall(id, method, params, FALSE).kind = "throws"

\* C13: on a resource registered with authRequired, while no auth header is
\* set a query of any verb makes no request, returns ERROR with the model and
\* leaves every cache as it is; once a header is set the query proceeds: a
\* GET answers from the cache or starts its fetch, another verb is sent.
C13_AuthRequiredGate ==
  \A o \in registered, method \in Methods, params \in ParamsChoices,
     forceRefresh \in BOOLEAN :
    LET r == resources[o]
        cacheKey == keyOf(params)
        out == get(o, method, params, forceRefresh)
        branch == cacheBranch(r.cache, cacheKey, r.timeUntilStale, forceRefresh)
    IN r.authRequired =>
         /\ authHeader = EmptyObj =>
              /\ out = unchanged(refusedPayload(r.model))
              /\ out.ret.status = DataStatus.ERROR
              /\ out.ret.data = r.model
         /\ (authHeader # EmptyObj /\ HasRequiredParam(params)) =>
              /\ method # "get" =>
                   /\ Len(out.mutations) = Len(mutations) + 1
                   /\ out.ret.status = pendingStatus(method)
              /\ (method = "get" /\ branch \in {"miss", "stale", "retry"}) =>
                   oneFetchStarted(out)
              /\ (method = "get" /\ branch = "miss") =>
                   out.ret.status = DataStatus.EMPTY
              /\ (method = "get" /\ branch = "fresh") =>
                   /\ out.ret.status = DataStatus.FRESH
                   /\ out.ret.data = dataOf(r.cache[cacheKey])
                   /\ noFetchStarted(out)

\* With the header set, a query of the resource that requires auth went
\* through and its fetch completed.
C13_Witness ==
  /\ authHeader = Token
  /\ \E o \in registered :
       /\ resources[o].authRequired
       /\ \E k \in DOMAIN resources[o].cache : successOf(resources[o].cache[k])

C15_PendingIffFetchInFlight ==
  \A o \in registered, params \in Complete, forceRefresh \in BOOLEAN :
    LET cacheKey == keyOf(params)
        out == get(o, "get", params, forceRefresh)
    IN (/\ accepted(o, params)
        /\ cacheKey \in DOMAIN resources[o].cache =>
             ~has(resources[o].cache[cacheKey], "pendingGet")) =>
         (isPending(out.ret) <=>
            /\ out.ret.promise.kind = "fetch"
            /\ out.ret.promise.ref \in DOMAIN out.fetches
            /\ out.fetches[out.ret.promise.ref] = "inflight")

\* The requests whose promise is not settled.
outstanding(f) == f \in DOMAIN fetches

\* C16: a cache entry holds a pending future only while a fetch is
\* outstanding for its key (one direction of: the pending future is set if
\* and only if a fetch is outstanding).
C16_PendingOnlyWhileOutstanding ==
  \A o \in Objects :
    \A cacheKey \in DOMAIN resources[o].cache :
      has(resources[o].cache[cacheKey], "pendingGet") =>
        \E f \in DOMAIN fetches : f[1] = o /\ f[2] = cacheKey /\ outstanding(f)

\* C17: the data of every cache entry is none or the decoded body of a
\* successful fetch of its key; a failed fetch does not put anything else
\* there.
C17_DataIsFetchedBodyOrNone ==
  \A o \in Objects :
    \A cacheKey \in DOMAIN resources[o].cache :
      dataOf(resources[o].cache[cacheKey]) \in Bodies \cup {NullData}

\* The fetches whose entry is gone from the cache while they are in flight.
swept(f) == inflight(f) /\ f[2] \notin DOMAIN resources[f[1]].cache

C19_SweptKeyStaysAbsent ==
  \A o \in Objects :
    \A cacheKey \in DOMAIN resources[o].cache :
      cacheClearoutInterval # 0 =>
        \/ inflightFor(o, cacheKey) # {}
        \/ \E t \in timers : t.fetch[1] = o /\ t.fetch[2] = cacheKey

\* The requests started by a resource that is no longer in the pool.
orphan(f) == inflight(f) /\ f[1] \notin registered

\* C20: the completion of a fetch whose resource was removed changes no
\* cache entry of any resource registered at that time, one registered again
\* under the same id included; and right after removeResource(id) a query
\* for id is refused as unregistered.
C20_OrphanFetchDiscarded ==
  [][/\ \A f \in DOMAIN fetches :
          \A resp \in Responses :
            (orphan(f) /\ completeFetch(f, resp)) =>
              \A o \in registered : resources'[o] = resources[o]
     /\ \A id \in ResourceIds :
          removeResource(id) =>
            \A method \in Verbs : \A params \in ParamsChoices :
              \A forceRefresh \in BOOLEAN :
                queryResourceCall(id, method, params, forceRefresh)'.kind
                  = raised(NeverInitialized).kind]_vars

\* An orphaned fetch is in flight while the resource registered again under
\* its id holds an entry of its own for the same key.
C20_Witness ==
  \E f \in DOMAIN fetches :
    /\ orphan(f)
    /\ "USER" \in DOMAIN resourcePool
    /\ resources[f[1]].model = Model("USER")
    /\ f[2] \in DOMAIN resources[resourcePool["USER"]].cache

\* The entry of the key holds the result of a fetch that has completed.
completedEntry(o, cacheKey) ==
  /\ cacheKey \in DOMAIN resources[o].cache
  /\ has(resources[o].cache[cacheKey], "timestamp")

\* C21: when a fetch completes while the entry of its key already holds the
\* result of another fetch that was outstanding with it, the entry becomes
\* the outcome of the fetch that has just completed: its success flag, its
\* completion time and, for a success, its body.
C21_LastCompletionWins ==
  [][\A f \in DOMAIN fetches :
       \A resp \in Responses :
         (completedEntry(f[1], f[2]) /\ completeFetch(f, resp)) =>
           /\ f[2] \in DOMAIN resources'[f[1]].cache
           /\ LET entry == resources'[f[1]].cache[f[2]] IN
              /\ has(entry, "timestamp") /\ entry.timestamp = now
              /\ successOf(entry) = (resp.kind = "ok")
              /\ resp.kind = "ok" => dataOf(entry) = resp.body]_vars

\* The entry of the key is a success that has not expired.
freshEntry(o, cacheKey) ==
  /\ cacheKey \in DOMAIN resources[o].cache
  /\ successOf(resources[o].cache[cacheKey])
  /\ withinTTL(resources[o].cache[cacheKey], resources[o].timeUntilStale)

\* C22: forceRefresh changes the answer of a GET query only for a fresh
\* entry, where it returns STALE and starts one fetch; in every other entry
\* state the query returns the same status, data and kind of future and
\* starts as many fetches as without it, and with a fetch in flight for the
\* key it starts none.
C22_ForceRefreshOnlyFromFresh ==
  \A o \in Objects, params \in Complete :
    LET cacheKey == keyOf(params)
        forcing == get(o, "get", params, TRUE)
        plain == get(o, "get", params, FALSE)
    IN accepted(o, params) =>
         /\ freshEntry(o, cacheKey) =>
              /\ forcing.ret.status = DataStatus.STALE
              /\ oneFetchStarted(forcing)
         /\ ~freshEntry(o, cacheKey) =>
              /\ forcing.ret.status = plain.ret.status
              /\ forcing.ret.data = plain.ret.data
              /\ forcing.ret.promise.kind = plain.ret.promise.kind
              /\ totalStarted(forcing.started) = totalStarted(plain.started)
         /\ fetchInFlight(o, cacheKey) => noFetchStarted(forcing)

\* Values a caller may pass as query, params or header, and the triples of
\* them; structural equality of two such values (an object is its set of
\* properties, whatever the order they were written in).
KeyParts ==
  {Undefined, EmptyObj, ParamsA, ParamsUndefined,
   Obj(<<Prop("username", Str("a")), Prop("page", Str("b"))>>),
   Obj(<<Prop("page", Str("b")), Prop("username", Str("a"))>>)}
KeyTriples == KeyParts \X KeyParts \X KeyParts
properties(v) == {v.props[i] : i \in DOMAIN v.props}
structurallyEqual(v, w) ==
  v.t = w.t /\ v.s = w.s /\ properties(v) = properties(w)
sameTriple(t, u) == \A i \in 1..3 : structurallyEqual(t[i], u[i])

\* C23: in the cache of every resource two queries get the same cache key
\* exactly when their query, their params and their header are structurally
\* equal.
C23_KeyIsInjective ==
  \A o \in Objects :
    \A t \in KeyTriples, u \in KeyTriples :
      sameTriple(t, u) <=> queryKey(t[1], t[2], t[3]) = queryKey(u[1], u[2], u[3])

\* The entry of the key is a failure whose TTL has run out.
failedAndExpired(o, cacheKey) ==
  /\ cacheKey \in DOMAIN resources[o].cache
  /\ ~successOf(resources[o].cache[cacheKey])
  /\ has(resources[o].cache[cacheKey], "timestamp")
  /\ now - resources[o].cache[cacheKey].timestamp >= resources[o].timeUntilStale

DecodeOrHttpFailure == {resp \in Responses : resp.kind \in {"bad-json", "http-error"}}

\* C25: in a browser a decode failure is cached as an HTTP failure is: the
\* completion leaves a failed entry stamped with the completion time whose
\* stored error is the normalized error the future was rejected with, and
\* the next query for the key is rejected with that same error.
C25_DecodeFailureCachedAsHttpFailure ==
  [][\A f \in DOMAIN fetches :
       \A resp \in DecodeOrHttpFailure :
         (isBrowser /\ completeFetch(f, resp)) =>
           LET rejection == fetchCallback(resources[f[1]].cache, f[2], resp).value IN
           /\ rejection = normalizeError(resp.kind, resp.status)
           /\ f[2] \in DOMAIN resources'[f[1]].cache
           /\ LET entry == resources'[f[1]].cache[f[2]] IN
              /\ ~successOf(entry)
              /\ has(entry, "timestamp") /\ entry.timestamp = now
              /\ dataOf(entry) = rejection
           /\ \A params \in Complete :
                (keyOf(params) = f[2] /\ accepted(f[1], params)) =>
                  get(f[1], "get", params, FALSE)'.ret.promise
                    = rejectedPromise(rejection)]_vars

\* The completion listeners registered so far on the future of mutation m.
listeners(m) ==
  {kind \in {"affects", "invalidates"} :
     \/ kind = "affects" /\ mutations[m].affectsThen # "none"
     \/ kind = "invalidates" /\ mutations[m].invalidatesThen # "none"}

\* C26: however many affectsResource and invalidatesResource calls are made
\* on a Payload, its future carries one completion listener in total, the
\* one the first call of either kind registered.
C26_OneListenerPerPayload ==
  \A m \in 1..Len(mutations) : Cardinality(listeners(m)) <= 1

\* The steps that are a GET query, and the timestamped entries.
querying ==
  \E q \in QueryInputs, forceRefresh \in BOOLEAN :
    queryResource(q.id, "get", q.params, forceRefresh)
stamped(rs, o, cacheKey) ==
  cacheKey \in DOMAIN rs[o].cache /\ has(rs[o].cache[cacheKey], "timestamp")

\* C27: a read never touches a timestamp: a query leaves every entry that
\* has a timestamp with that timestamp, a GET query that starts no fetch
\* changes no entry at all, and a timestamp other than the epoch appears
\* only in the step that completes a fetch.
C27_ReadsKeepTimestamps ==
  [][/\ querying =>
          /\ \A o \in Objects : \A cacheKey \in DOMAIN resources[o].cache :
               stamped(resources, o, cacheKey) =>
                 /\ stamped(resources', o, cacheKey)
                 /\ resources'[o].cache[cacheKey].timestamp
                      = resources[o].cache[cacheKey].timestamp
          /\ fetches' = fetches => resources' = resources
     /\ \A o \in Objects : \A cacheKey \in DOMAIN resources'[o].cache :
          (/\ stamped(resources', o, cacheKey)
           /\ resources'[o].cache[cacheKey].timestamp # 0
           /\ ~(/\ stamped(resources, o, cacheKey)
                /\ resources[o].cache[cacheKey].timestamp
                     = resources'[o].cache[cacheKey].timestamp)) =>
            \E f \in DOMAIN fetches, resp \in Responses :
              f[1] = o /\ f[2] = cacheKey /\ completeFetch(f, resp)]_vars

\* How the next GET query of fetch f's key is answered once f has completed
\* with resp, nothing else happening in between.
answerAfter(f, resp) ==
  cacheBranch(fetchCallback(resources[f[1]].cache, f[2], resp).cache, f[2],
              resources[f[1]].timeUntilStale, FALSE)

\* C28: a stale-out that comes while a fetch of the key is in flight is not
\* lost: when the auth header changes with a fetch outstanding, the query
\* that follows that fetch's completion is not answered FRESH from the data
\* of the fetch started before the change.
C28_StaleOutSurvivesFetch ==
  [][authHeaderChange =>
       \A f \in DOMAIN fetches :
         \A resp \in Responses :
           (inflight(f) /\ f[1] \in registered /\ resp.kind = "ok") =>
             answerAfter(f, resp)' # "fresh"]_vars

\* The responses with which the network answers a call.
Answers == {resp \in Responses : resp.kind # "no-response"}

\* C29: no entry is left pending: the step in which a fetch gets its
\* response settles its future, and if no other fetch of the key is
\* outstanding then, the entry of the key, if there is one, carries no
\* pending future and holds a completed result.
C29_ResponseSettlesFetch ==
  [][\A f \in DOMAIN fetches :
       \A resp \in Answers :
         completeFetch(f, resp) =>
           /\ ~outstanding(f)'
           /\ (/\ \A g \in DOMAIN fetches' : ~(g[1] = f[1] /\ g[2] = f[2])
               /\ f[2] \in DOMAIN resources'[f[1]].cache) =>
                /\ ~has(resources'[f[1]].cache[f[2]], "pendingGet")
                /\ has(resources'[f[1]].cache[f[2]], "timestamp")]_vars

\* The timers of later fetches of timer t's key whose interval is still
\* running.
laterTimers(t) ==
  {u \in timers : /\ u.fetch[1] = t.fetch[1] /\ u.fetch[2] = t.fetch[2]
                  /\ u.fetch[3] > t.fetch[3] /\ u.due > now}

\* C30: the timer of a fetch removes only that fetch's entry: while the
\* clear-out interval of a later fetch of the same key has not elapsed, the
\* entry that fetch installed is not deleted by the earlier fetch's timer.
C30_TimerSparesLaterEntry ==
  [][\A t \in timers :
       (sweep(t) /\ laterTimers(t) # {}
          /\ t.fetch[2] \in DOMAIN resources[t.fetch[1]].cache) =>
         t.fetch[2] \in DOMAIN resources'[t.fetch[1]].cache]_vars

\* Mutations whose cascades name resources that are not in the pool: one
\* never registered, or one removed since.
InitGhost ==
  /\ runtime = "browser"
  /\ cacheClearoutInterval = 0
  /\ Constructed(SeededCache)

NextGhost ==
  \/ \E method \in Methods \ {"get"} : queryResource("USER", method, ParamsA, FALSE)
  \/ \E m \in 1..MaxMutations, resp \in Responses : completeMutation(m, resp)
  \/ \E m \in 1..MaxMutations, id \in CallerIds : invalidatesResource(m, id)
  \/ \E m \in 1..MaxMutations : invalidatesListener(m)
  \/ removeResource("ACCOUNT")

SpecGhost == InitGhost /\ [][NextGhost]_vars

\* C31: a target that is not registered does not keep a cascade from the
\* others: the listener of a resolved mutation stales out every entry of
\* every registered resource named to invalidatesResource, wherever the
\* unregistered one sits among the targets.
C31_GhostTargetSparesOthers ==
  [][\A m \in 1..MaxMutations :
       (invalidatesSettles(m) /\ mutations[m].state = "resolved") =>
         \A i \in 1..Len(mutations[m].invalidatedResources) :
           LET o == poolGet(Str(mutations[m].invalidatedResources[i])) IN
           o # 0 =>
             \A cacheKey \in DOMAIN resources[o].cache :
               has(resources[o].cache[cacheKey], "timestamp") =>
                 resources'[o].cache[cacheKey].timestamp = 0]_vars

====
